---- MODULE Spec2Model ----
(***************************************************************************)
(* Model of the point-extractor serverless handlers:                       *)
(*   - the full-analysis handler  netlify/functions/extract-constraints.js *)
(*   - the simple (bullet list) handler of the second function file        *)
(*   - the body functions of the provider table (SpecBody), two requests   *)
(*     interleaved (SpecConcurrent), the analysis page app/page.tsx in     *)
(*     front of the full-analysis handler (SpecPage)                       *)
(*                                                                         *)
(* JavaScript values are tagged records [t |-> tag, v |-> payload].        *)
(* A string is a sequence of text tokens; a token [c |-> "x"] is an atomic *)
(* piece of text (one character for input and answer texts), and a token   *)
(* [c |-> "json", j |-> v] is the JSON serialisation of the value v.       *)
(* A number [t |-> "num", v |-> n] denotes n / 10 (one decimal digit), so  *)
(* that 0.8 is 8 and the integer 3 is 30.                                  *)
(***************************************************************************)
EXTENDS Integers, Sequences, FiniteSets, TLC

VARIABLES
    env,         \* process.env: the configured credentials
    pc,          \* per request: "idle", "fetch", "json" or "done"
    fn,          \* per request: the function invoked, "full" or "simple"
    event,       \* per request: the event the handler was called with
    bodyParsed,  \* per request: whether event.body was handed to JSON.parse
    locals,      \* per request: providerName, inputText and apiKey of the handler
    outbound,    \* per request: the fetch calls issued so far
    resp,        \* per request: what the provider answered
    response,    \* per request: the response the handler returned
    built,       \* a provider's body function applied to a list of messages
    page         \* the state of the analysis page (app/page.tsx)

handlerVars == <<env, pc, fn, event, bodyParsed, locals, outbound, resp, response>>
vars == <<env, pc, fn, event, bodyParsed, locals, outbound, resp, response, built, page>>

(***************************************************************************)
(* Bounds of the model                                                     *)
(***************************************************************************)
MaxInputLen == 2

\* longest list of messages handed to a provider's body function
MaxMessages == 3

(***************************************************************************)
(* JavaScript values                                                       *)
(***************************************************************************)
Undef == [t |-> "undefined"]
Null == [t |-> "null"]
Bool(b) == [t |-> "bool", v |-> b]
Num(n) == [t |-> "num", v |-> n]
Str(s) == [t |-> "str", v |-> s]
Arr(a) == [t |-> "arr", v |-> a]
Obj(o) == [t |-> "obj", v |-> o]

\* an integer as a JavaScript number
IntNum(k) == Num(10 * k)

Ch(c) == [c |-> c]
Doc(v) == [c |-> "json", j |-> v]
\* a text from a tuple of TLA+ strings, one token each
T(s) == [i \in 1..Len(s) |-> Ch(s[i])]
\* n copies of the token c
Rep(c, n) == [i \in 1..n |-> Ch(c)]

EmptyObj == Obj(<<>>)

\* JavaScript truthiness, as used by !x and x || y
Truthy(x) ==
    CASE x.t = "undefined" -> FALSE
      [] x.t = "null" -> FALSE
      [] x.t = "bool" -> x.v
      [] x.t = "num" -> x.v # 0
      [] x.t = "str" -> x.v # <<>>
      [] OTHER -> TRUE

\* x || y
OrElse(x, y) == IF Truthy(x) THEN x ELSE y

\* x.k for a value x that is neither null nor undefined; a primitive or an
\* array has none of the property names the handlers read
Get(x, k) ==
    IF x.t = "obj" /\ k \in DOMAIN x.v THEN x.v[k] ELSE Undef

\* x.k throws a TypeError when x is null or undefined
Nullish(x) == x.t \in {"null", "undefined"}

\* { ...x }: the own enumerable properties of x (none for null, undefined,
\* booleans and numbers; the indexed elements for strings and arrays)
Spread(x) ==
    CASE x.t = "obj" -> x.v
      [] x.t = "arr" -> [i \in {ToString(n - 1) : n \in 1..Len(x.v)} |->
                            x.v[CHOOSE n \in 1..Len(x.v) : ToString(n - 1) = i]]
      [] x.t = "str" -> [i \in {ToString(n - 1) : n \in 1..Len(x.v)} |->
                            Str(<<x.v[CHOOSE n \in 1..Len(x.v) : ToString(n - 1) = i]>>)]
      [] OTHER -> <<>>

\* { ...o, k: x } on property maps: the later key wins
Put(o, k, x) == (k :> x) @@ o

(***************************************************************************)
(* Strings                                                                 *)
(***************************************************************************)
\* white space as String.prototype.trim, the regular expression \s and the
\* JSON grammar see it (over the characters the model uses)
IsSpace(tok) == tok.c \in {" ", "\n", "\t"}

RECURSIVE TrimStart(_)
TrimStart(s) == IF s # <<>> /\ IsSpace(Head(s)) THEN TrimStart(Tail(s)) ELSE s

RECURSIVE TrimEnd(_)
TrimEnd(s) ==
    IF s # <<>> /\ IsSpace(s[Len(s)]) THEN TrimEnd(SubSeq(s, 1, Len(s) - 1)) ELSE s

\* String.prototype.trim
Trim(s) == TrimEnd(TrimStart(s))

\* position of the first occurrence of sub in s, 0 when there is none
IndexOf(s, sub) ==
    LET hits == {i \in 1..(Len(s) - Len(sub) + 1) : SubSeq(s, i, i + Len(sub) - 1) = sub}
    IN IF hits = {} THEN 0 ELSE CHOOSE i \in hits : \A j \in hits : i <= j

\* String.prototype.includes
Includes(s, sub) == IndexOf(s, sub) # 0

\* String.prototype.split with a non-empty separator
RECURSIVE Split(_, _)
Split(s, sep) ==
    LET i == IndexOf(s, sep)
    IN IF i = 0 THEN <<s>>
       ELSE <<SubSeq(s, 1, i - 1)>> \o Split(SubSeq(s, i + Len(sep), Len(s)), sep)

\* JSON.stringify of a value none of whose properties is undefined
JSONStringify(x) == <<Doc(x)>>

\* JSON.parse: the text is one JSON document with optional white space
\* around it, or a SyntaxError is thrown
JSONParse(s) ==
    LET body == Trim(s)
    IN IF Len(body) = 1 /\ body[1].c = "json"
       THEN [ok |-> TRUE, v |-> body[1].j]
       ELSE [ok |-> FALSE, v |-> Undef]

\* the message of the TypeError / SyntaxError the engine throws
TypeErrorMessage == T(<<"TypeError">>)
SyntaxErrorMessage == T(<<"SyntaxError">>)
\* the message of the error a failed fetch rejects with
FetchFailedMessage == T(<<"fetch failed">>)

\* uuidv4(): the k-th identifier generated while handling request r
Uuid(r, k) == Str(<<Ch("uuid"), Ch(r), Ch(ToString(k))>>)

(***************************************************************************)
(* Provider registry                                                       *)
(***************************************************************************)
ProviderNames == {"xAI (Grok)", "OpenAI", "Anthropic (Claude)", "Google (Gemini)", "Cohere"}

\* the descriptors' endpoint, model and envKey
AI_PROVIDERS ==
    [p \in ProviderNames |->
        CASE p = "xAI (Grok)" ->
                [endpoint |-> "https://api.x.ai/v1/chat/completions",
                 model |-> "grok-3", envKey |-> "XAI_API_KEY"]
          [] p = "OpenAI" ->
                [endpoint |-> "https://api.openai.com/v1/chat/completions",
                 model |-> "gpt-4o-mini", envKey |-> "OPENAI_API_KEY"]
          [] p = "Anthropic (Claude)" ->
                [endpoint |-> "https://api.anthropic.com/v1/messages",
                 model |-> "claude-3-haiku-20240307", envKey |-> "ANTHROPIC_API_KEY"]
          [] p = "Google (Gemini)" ->
                [endpoint |-> "https://generativelanguage.googleapis.com/v1beta/models/gemini-1.5-flash:generateContent",
                 model |-> "gemini-1.5-flash", envKey |-> "GOOGLE_API_KEY"]
          [] p = "Cohere" ->
                [endpoint |-> "https://api.cohere.ai/v1/chat",
                 model |-> "command-r-plus", envKey |-> "COHERE_API_KEY"]]

\* property names every object inherits from Object.prototype
InheritedNames == {"constructor", "toString", "valueOf", "hasOwnProperty", "__proto__"}

\* AI_PROVIDERS[providerName]: a descriptor ("own"), a member inherited from
\* Object.prototype ("inherited": truthy, with no envKey, endpoint, headers
\* or body), or undefined ("none")
Lookup(providerName) ==
    IF providerName.t = "str" /\ Len(providerName.v) = 1
    THEN LET key == providerName.v[1].c
         IN IF key \in ProviderNames THEN [found |-> "own", name |-> key]
            ELSE IF key \in InheritedNames THEN [found |-> "inherited", name |-> key]
            ELSE [found |-> "none", name |-> key]
    ELSE [found |-> "none", name |-> ""]

\* headers: (apiKey) => ({...})
ProviderHeaders(p, apiKey) ==
    CASE p \in {"xAI (Grok)", "OpenAI", "Cohere"} ->
            [h \in {"Content-Type", "Authorization"} |->
                IF h = "Content-Type" THEN T(<<"application/json">>)
                ELSE T(<<"Bearer ">>) \o apiKey]
      [] p = "Anthropic (Claude)" ->
            [h \in {"Content-Type", "x-api-key", "anthropic-version"} |->
                CASE h = "Content-Type" -> T(<<"application/json">>)
                  [] h = "x-api-key" -> apiKey
                  [] OTHER -> T(<<"2023-06-01">>)]
      [] p = "Google (Gemini)" ->
            [h \in {"Content-Type"} |-> T(<<"application/json">>)]

\* a message as a JavaScript object
MessageValue(m) == Obj([role |-> Str(T(<<m.role>>)), content |-> Str(m.content)])

\* messages.find(m => m.role === 'system')?.content || ''
SystemContent(messages) ==
    LET sys == SelectSeq(messages, LAMBDA m : m.role = "system")
    IN IF sys = <<>> THEN <<>> ELSE sys[1].content

\* messages.map(m => `${m.role}: ${m.content}`).join('\n\n')
RECURSIVE Flatten(_)
Flatten(messages) ==
    IF messages = <<>> THEN <<>>
    ELSE T(<<Head(messages).role, ":", " ">>) \o Head(messages).content
         \o (IF Len(messages) > 1 THEN T(<<"\n", "\n">>) ELSE <<>>)
         \o Flatten(Tail(messages))

\* max_tokens of the Anthropic body: 2000 in the full-analysis function,
\* 1000 in the simple one
MaxTokens(f) == IF f = "full" THEN IntNum(2000) ELSE IntNum(1000)

\* body: (model, messages) => ({...}); messages[messages.length - 1].content
\* throws a TypeError on an empty list
ProviderBody(f, p, model, messages) ==
    LET vals == [i \in 1..Len(messages) |-> MessageValue(messages[i])]
    IN CASE p \in {"xAI (Grok)", "OpenAI"} ->
              Obj([model |-> Str(T(<<model>>)), messages |-> Arr(vals)])
         [] p = "Anthropic (Claude)" ->
              Obj([model |-> Str(T(<<model>>)),
                   max_tokens |-> MaxTokens(f),
                   messages |-> Arr(SelectSeq(vals, LAMBDA v : v.v.role # Str(T(<<"system">>)))),
                   system |-> Str(SystemContent(messages))])
         [] p = "Google (Gemini)" ->
              Obj([contents |-> Arr(<<Obj([parts |-> Arr(<<Obj([text |-> Str(Flatten(messages))])>>)])>>)])
         [] p = "Cohere" ->
              Obj([model |-> Str(T(<<model>>)),
                   message |-> Str(messages[Len(messages)].content),
                   preamble |-> Str(SystemContent(messages))])

\* x[0]
Index0(x) ==
    CASE x.t = "arr" -> IF x.v = <<>> THEN Undef ELSE x.v[1]
      [] x.t = "str" -> IF x.v = <<>> THEN Undef ELSE Str(<<x.v[1]>>)
      [] OTHER -> Get(x, "0")

\* property path of the answer inside each provider's response envelope
AnswerPath(p) ==
    CASE p \in {"xAI (Grok)", "OpenAI"} -> <<"choices", "[0]", "message", "content">>
      [] p = "Anthropic (Claude)" -> <<"content", "[0]", "text">>
      [] p = "Google (Gemini)" -> <<"candidates", "[0]", "content", "parts", "[0]", "text">>
      [] p = "Cohere" -> <<"text">>

\* follow a property path; reading a property of null or undefined throws
RECURSIVE Navigate(_, _)
Navigate(x, path) ==
    IF path = <<>> THEN [ok |-> TRUE, v |-> x]
    ELSE IF Nullish(x) THEN [ok |-> FALSE, v |-> Undef]
    ELSE Navigate(IF Head(path) = "[0]" THEN Index0(x) ELSE Get(x, Head(path)), Tail(path))

\* parseResponse: (data) => ...
ParseResponse(p, data) == Navigate(data, AnswerPath(p))

(***************************************************************************)
(* The handlers up to the outbound call                                    *)
(***************************************************************************)
NoHeaders == <<>>
\* the headers of the 405, 400 and 500 responses of the full-analysis handler
\* and of the 500 response of the simple handler's catch
ErrorHeaders ==
    [h \in {"Content-Type", "Access-Control-Allow-Origin"} |->
        IF h = "Content-Type" THEN "application/json" ELSE "*"]
\* the headers of the 200 responses
SuccessHeaders ==
    [h \in {"Content-Type", "Access-Control-Allow-Origin",
            "Access-Control-Allow-Headers", "Access-Control-Allow-Methods"} |->
        CASE h = "Content-Type" -> "application/json"
          [] h = "Access-Control-Allow-Origin" -> "*"
          [] h = "Access-Control-Allow-Headers" -> "Content-Type"
          [] OTHER -> "POST, OPTIONS"]

\* the headers of the responses returned before the outbound call: the
\* simple handler returns them with no headers at all
EarlyHeaders(f) == IF f = "full" THEN ErrorHeaders ELSE NoHeaders

Response(status, headers, bodyValue) ==
    [statusCode |-> status, headers |-> headers, body |-> JSONStringify(bodyValue)]

ErrorBody(message) == Obj([error |-> Str(message)])

\* if (event.httpMethod !== 'POST') return {...}
MethodNotAllowed_NoErrorField(f) ==
    Response(405, EarlyHeaders(f), Obj([message |-> Str(T(<<"Method not allowed">>))]))
MethodNotAllowed(f) == Response(405, EarlyHeaders(f), ErrorBody(T(<<"Method not allowed">>)))

\* if (!provider) return {...}
InvalidProvider(f) == Response(400, EarlyHeaders(f), ErrorBody(T(<<"Invalid provider">>)))

\* `${x}` for the values a request carries
ToText(x) ==
    CASE x.t = "str" -> x.v
      [] x.t = "undefined" -> T(<<"undefined">>)
      [] x.t = "null" -> T(<<"null">>)
      [] OTHER -> T(<<"[value]">>)

\* if (!apiKey) return {...}
KeyNotConfigured(f, providerName) ==
    Response(500, EarlyHeaders(f),
             ErrorBody(ToText(providerName) \o T(<<" API key not configured">>)))

\* a catch block that returns the error message alone
Caught_ErrorOnly(f, message) == Response(500, ErrorHeaders, Obj([error |-> Str(message)]))

\* catch (error) { return {...} }
Caught(f, message) ==
    IF f = "full"
    THEN Response(500, ErrorHeaders,
                  Obj([error |-> OrElse(Str(message), Str(T(<<"Internal server error">>))),
                       constraints |-> Arr(<<>>),
                       redundantGroups |-> Arr(<<>>),
                       contradictions |-> Arr(<<>>),
                       originalText |-> Str(<<>>)]))
    ELSE Response(500, ErrorHeaders, Obj([error |-> Str(message)]))

\* if (!apiKey): the credential is absent or the empty string
KeyMissing_EmptyAccepted(apiKey) == apiKey.t = "undefined"
KeyMissing(apiKey) == ~Truthy(apiKey)

\* process.env[name]
ProcessEnv(e, name) == IF name \in DOMAIN e THEN Str(e[name]) ELSE Undef

\* inputText.replace(/"/g, '\\"')
RECURSIVE EscapeQuotes(_)
EscapeQuotes(s) ==
    IF s = <<>> THEN <<>>
    ELSE (IF Head(s) = Ch("\"") THEN T(<<"\\", "\"">>) ELSE <<Head(s)>>) \o EscapeQuotes(Tail(s))

\* the system and user messages of each function
Messages(f, inputText) ==
    IF f = "full"
    THEN << [role |-> "system", content |-> T(<<"You are a helpful assistant that analyzes text [...] valid JSON only.">>)],
            [role |-> "user",
             content |-> T(<<"Analyze the following text [...] Text: \"">>) \o ToText(inputText)
                         \o T(<<"\" Please return ONLY a valid JSON response [...] \"originalText\": \"">>)
                         \o EscapeQuotes(ToText(inputText))
                         \o T(<<"\" } Rules: [...]">>)] >>
    ELSE << [role |-> "system", content |-> T(<<"You are a helpful assistant that extracts specific constraints [...]">>)],
            [role |-> "user",
             content |-> T(<<"Extract the specific constraints from this paragraph as a bulleted list: ">>)
                         \o ToText(inputText)] >>

\* a url that carries the credential for every provider
Url_KeyForAll(p, apiKey) == T(<<AI_PROVIDERS[p].endpoint>>) \o T(<<"?key=">>) \o apiKey

\* let url = provider.endpoint; if (providerName === 'Google (Gemini)') url += `?key=${apiKey}`
Url(p, apiKey) ==
    T(<<AI_PROVIDERS[p].endpoint>>)
    \o (IF p = "Google (Gemini)" THEN T(<<"?key=">>) \o apiKey ELSE <<>>)

\* the arguments of fetch(url, {method, headers, body})
FetchCall(f, p, apiKey, inputText) ==
    [url |-> Url(p, apiKey),
     method |-> "POST",
     headers |-> ProviderHeaders(p, apiKey),
     body |-> JSONStringify(ProviderBody(f, p, AI_PROVIDERS[p].model, Messages(f, inputText)))]

\* The handler of function f from its entry to its first await.  The
\* outcome is a returned response ("return"), or the outbound call with the
\* handler suspended on it ("fetch").  parsed tells whether event.body was
\* handed to JSON.parse.
HandlerStart(f, ev, e) ==
    IF ev.httpMethod # "POST"
    THEN [kind |-> "return", parsed |-> FALSE, response |-> MethodNotAllowed(f)]
    ELSE
    LET req == JSONParse(ev.body)
        providerName == Get(req.v, "providerName")
        inputText == Get(req.v, "inputText")
        provider == Lookup(providerName)
        apiKey == IF provider.found = "own"
                  THEN ProcessEnv(e, AI_PROVIDERS[provider.name].envKey)
                  ELSE ProcessEnv(e, "undefined")
    IN CASE ~req.ok ->
              [kind |-> "return", parsed |-> TRUE, response |-> Caught(f, SyntaxErrorMessage)]
         [] req.ok /\ Nullish(req.v) ->
              [kind |-> "return", parsed |-> TRUE, response |-> Caught(f, TypeErrorMessage)]
         [] req.ok /\ ~Nullish(req.v) /\ provider.found = "none" ->
              [kind |-> "return", parsed |-> TRUE, response |-> InvalidProvider(f)]
         [] req.ok /\ ~Nullish(req.v) /\ provider.found # "none" /\ KeyMissing(apiKey) ->
              [kind |-> "return", parsed |-> TRUE,
               response |-> KeyNotConfigured(f, providerName)]
         [] req.ok /\ ~Nullish(req.v) /\ provider.found = "inherited" /\ ~KeyMissing(apiKey) ->
              \* provider.headers is undefined: calling it throws
              [kind |-> "return", parsed |-> TRUE, response |-> Caught(f, TypeErrorMessage)]
         [] req.ok /\ ~Nullish(req.v) /\ provider.found = "own" /\ ~KeyMissing(apiKey)
               /\ f = "full" /\ inputText.t # "str" ->
              \* inputText.replace is not a function, or inputText is undefined
              [kind |-> "return", parsed |-> TRUE, response |-> Caught(f, TypeErrorMessage)]
         [] OTHER ->
              [kind |-> "fetch", parsed |-> TRUE,
               locals |-> [providerName |-> provider.name, inputText |-> inputText,
                           apiKey |-> apiKey.v],
               call |-> FetchCall(f, provider.name, apiKey.v, inputText)]

(***************************************************************************)
(* Full analysis: from the answer text to the reconciled result            *)
(***************************************************************************)
\* the triple-backtick marker; the backtick character is written "BACKTICK"
Fence == T(<<"BACKTICK", "BACKTICK", "BACKTICK">>)
FenceJson == Fence \o T(<<"j", "s", "o", "n">>)
Newline == <<Ch("\n")>>

\* a clean-up that takes the answer to be fenced whether it is or not:
\* (aiOutput.split('```')[1] || '').split('```')[0].trim()
StripCodeFence_AlwaysFenced(aiOutput) ==
    LET parts == Split(aiOutput, Fence)
    IN IF Len(parts) >= 2 THEN Trim(parts[2]) ELSE <<>>

\* Clean up the AI response to extract JSON
StripCodeFence(aiOutput) ==
    IF Includes(aiOutput, FenceJson)
    THEN Trim(Split(Split(aiOutput, FenceJson)[2], Fence)[1])
    ELSE IF Includes(aiOutput, Fence)
    THEN Trim(Split(Split(aiOutput, Fence)[2], Fence)[1])
    ELSE aiOutput

\* the character class [-*\u2022]
IsBullet(tok) == tok.c \in {"-", "*", "U+2022"}

\* line.trim().match(/^[-*\u2022]/)
StartsWithBullet(line) == LET t == Trim(line) IN t # <<>> /\ IsBullet(t[1])

\* line.trim().match(/^[-*\u2022]\s/)
StartsWithBulletSpace(line) ==
    LET t == Trim(line) IN Len(t) >= 2 /\ IsBullet(t[1]) /\ IsSpace(t[2])

\* line.replace(/^[-*\u2022]\s/, '').trim()
BulletText(line) ==
    Trim(IF Len(line) >= 2 /\ IsBullet(line[1]) /\ IsSpace(line[2])
         THEN SubSeq(line, 3, Len(line)) ELSE line)

\* a fallback that takes every line of the answer for a constraint
FallbackResult_EveryLine(r, aiOutput, inputText) ==
    LET lines == Split(aiOutput, Newline)
    IN Obj([constraints |->
               Arr([i \in 1..Len(lines) |->
                      Obj([id |-> Uuid(r, i),
                           text |-> Str(BulletText(lines[i])),
                           sourceStart |-> IntNum(0),
                           sourceEnd |-> IntNum(Len(inputText))])]),
            redundantGroups |-> Arr(<<>>),
            contradictions |-> Arr(<<>>),
            originalText |-> Str(inputText)])

\* Fallback: create a basic analysis result
FallbackResult(r, aiOutput, inputText) ==
    LET lines == SelectSeq(Split(aiOutput, Newline), StartsWithBullet)
    IN Obj([constraints |->
               Arr([i \in 1..Len(lines) |->
                      Obj([id |-> Uuid(r, i),
                           text |-> Str(BulletText(lines[i])),
                           sourceStart |-> IntNum(0),
                           sourceEnd |-> IntNum(Len(inputText))])]),
            redundantGroups |-> Arr(<<>>),
            contradictions |-> Arr(<<>>),
            originalText |-> Str(inputText)])

\* number of uuidv4() calls the fallback made
FallbackUuids(aiOutput) == Len(SelectSeq(Split(aiOutput, Newline), StartsWithBullet))

\* Ensure all required properties exist
EnsureProperties(a, inputText) ==
    [constraints |-> OrElse(Get(a, "constraints"), Arr(<<>>)),
     redundantGroups |-> OrElse(Get(a, "redundantGroups"), Arr(<<>>)),
     contradictions |-> OrElse(Get(a, "contradictions"), Arr(<<>>)),
     originalText |-> OrElse(Get(a, "originalText"), Str(inputText))]

\* x.map(f) throws unless x is an array; the callbacks read a property of
\* each element, which throws for a null element
Mappable(x) == x.t = "arr" /\ \A i \in 1..Len(x.v) : ~Nullish(x.v[i])

\* number of elements before position i whose id is falsy: each one costs a
\* uuidv4() call
MissingIds(a, i) == Cardinality({j \in 1..(i - 1) : ~Truthy(Get(a[j], "id"))})

\* constraint => ({...constraint, id: ..., sourceStart: ..., sourceEnd: ...})
MapConstraint(c, id, inputText) ==
    Obj(Put(Put(Put(Spread(c),
        "id", OrElse(Get(c, "id"), id)),
        "sourceStart", OrElse(Get(c, "sourceStart"), IntNum(0))),
        "sourceEnd", OrElse(Get(c, "sourceEnd"), IntNum(Len(inputText)))))

\* group => ({...group, id: group.id || uuidv4(), similarity: group.similarity || 0.8})
MapGroup(g, id) ==
    Obj(Put(Put(Spread(g),
        "id", OrElse(Get(g, "id"), id)),
        "similarity", OrElse(Get(g, "similarity"), Num(8))))

\* contradiction => ({...contradiction, id: ..., confidence: contradiction.confidence || 0.8})
MapContradiction(k, id) ==
    Obj(Put(Put(Spread(k),
        "id", OrElse(Get(k, "id"), id)),
        "confidence", OrElse(Get(k, "confidence"), Num(8))))

\* Add IDs if missing: the three maps, drawing identifiers n + 1, n + 2, ...
AddIds(r, e, inputText, n) ==
    LET cs == e.constraints.v
        gs == e.redundantGroups.v
        ks == e.contradictions.v
        n1 == n + MissingIds(cs, Len(cs) + 1)
        n2 == n1 + MissingIds(gs, Len(gs) + 1)
    IN Obj([constraints |->
               Arr([i \in 1..Len(cs) |->
                      MapConstraint(cs[i], Uuid(r, n + MissingIds(cs, i) + 1), inputText)]),
            redundantGroups |->
               Arr([i \in 1..Len(gs) |-> MapGroup(gs[i], Uuid(r, n1 + MissingIds(gs, i) + 1))]),
            contradictions |->
               Arr([i \in 1..Len(ks) |->
                      MapContradiction(ks[i], Uuid(r, n2 + MissingIds(ks, i) + 1))]),
            originalText |-> e.originalText])

\* Lines 190-248 of the full-analysis handler: the reconciled analysisResult,
\* or ok = FALSE when a TypeError is thrown on the way
Reconcile(r, answer, inputText) ==
    LET aiOutput == StripCodeFence(answer)
        parsed == JSONParse(aiOutput)
        analysisResult == IF parsed.ok THEN parsed.v
                          ELSE FallbackResult(r, aiOutput, inputText)
        n == IF parsed.ok THEN 0 ELSE FallbackUuids(aiOutput)
        e == EnsureProperties(analysisResult, inputText)
    IN IF Nullish(analysisResult) THEN [ok |-> FALSE, v |-> Undef]
       ELSE IF ~(Mappable(e.constraints) /\ Mappable(e.redundantGroups)
                 /\ Mappable(e.contradictions))
       THEN [ok |-> FALSE, v |-> Undef]
       ELSE [ok |-> TRUE, v |-> AddIds(r, e, inputText, n)]

(***************************************************************************)
(* Simple extraction: from the answer text to the list of constraints      *)
(***************************************************************************)
SimpleConstraints(output) ==
    LET lines == SelectSeq(Split(output, Newline), StartsWithBulletSpace)
    IN Obj([constraints |->
               Arr([i \in 1..Len(lines) |-> Obj([text |-> Str(BulletText(lines[i]))])])])

(***************************************************************************)
(* The handlers after the outbound call                                    *)
(***************************************************************************)
\* if (!response.ok) { ... throw new Error(...) }: the message thrown
ProviderErrorMessage(rsp) ==
    LET decoded == JSONParse(rsp.body)
        errorData == IF decoded.ok THEN decoded.v ELSE EmptyObj
        err == Get(errorData, "error")
        message == IF Nullish(err) THEN Undef ELSE Get(err, "message")
    IN IF Nullish(errorData) THEN TypeErrorMessage
       ELSE ToText(OrElse(message,
                Str(T(<<"API ", "request failed with status ", ToString(rsp.status)>>))))

\* The handler of function f from the provider's response to its return
HandlerResume(f, r, loc, rsp) ==
    IF ~rsp.ok THEN Caught(f, ProviderErrorMessage(rsp))
    ELSE
    LET data == JSONParse(rsp.body)
        answer == ParseResponse(loc.providerName, data.v)
    IN IF ~data.ok THEN Caught(f, SyntaxErrorMessage)
       ELSE IF ~answer.ok \/ answer.v.t # "str" THEN Caught(f, TypeErrorMessage)
       ELSE IF f = "simple"
       THEN Response(200, SuccessHeaders, SimpleConstraints(Trim(answer.v.v)))
       ELSE LET result == Reconcile(r, Trim(answer.v.v), loc.inputText.v)
            IN IF result.ok THEN Response(200, SuccessHeaders, result.v)
               ELSE Caught(f, TypeErrorMessage)

(***************************************************************************)
(* Inputs: requests, process configurations, provider responses            *)
(***************************************************************************)
Functions == {"full", "simple"}
Methods == {"POST", "GET", "PUT", "DELETE", "OPTIONS"}

InputTexts == {Rep("a", n) : n \in 0..MaxInputLen}

\* provider names a request may carry: the registered ones, an unknown one,
\* the empty string and names every object inherits
RequestedNames == ProviderNames \cup {"FooAI", "constructor", "toString"}

RequestBodies ==
    {JSONStringify(Obj([providerName |-> Str(T(<<n>>)), inputText |-> Str(i)])) :
        n \in RequestedNames, i \in InputTexts}
    \cup {JSONStringify(Obj([providerName |-> Str(<<>>), inputText |-> Str(i)])) : i \in InputTexts}
    \cup {JSONStringify(Obj([inputText |-> Str(i)])) : i \in InputTexts}
    \cup {JSONStringify(Obj([providerName |-> Str(T(<<n>>))])) : n \in ProviderNames}
    \cup {JSONStringify(Null), JSONStringify(IntNum(5)), T(<<"a">>), <<>>}

EnvKeys == {AI_PROVIDERS[p].envKey : p \in ProviderNames}
AllConfigured == [k \in EnvKeys |-> T(<<"key:" \o k>>)]

\* every credential configured; none; or exactly one, the other entries
\* being absent or the empty string
Environments ==
    {AllConfigured, <<>>}
    \cup {[k \in {m} |-> AllConfigured[k]] : m \in EnvKeys}
    \cup {[k \in EnvKeys |-> IF k = m THEN AllConfigured[k] ELSE <<>>] : m \in EnvKeys}

Statuses == {200, 401, 500}

\* the provider's response envelope around an answer
Wrap(p, a) ==
    CASE p \in {"xAI (Grok)", "OpenAI"} ->
            Obj([choices |-> Arr(<<Obj([message |-> Obj([content |-> a])])>>)])
      [] p = "Anthropic (Claude)" -> Obj([content |-> Arr(<<Obj([text |-> a])>>)])
      [] p = "Google (Gemini)" ->
            Obj([candidates |-> Arr(<<Obj([content |-> Obj([parts |-> Arr(<<Obj([text |-> a])>>)])])>>)])
      [] p = "Cohere" -> Obj([text |-> a])

\* o with property k set to x, or o itself when x is undefined
With(o, k, x) == IF x.t = "undefined" THEN o ELSE Put(o, k, x)

MkConstraint(id, sourceStart, sourceEnd) ==
    Obj(With(With(With([text |-> Str(T(<<"t">>))], "id", id),
        "sourceStart", sourceStart), "sourceEnd", sourceEnd))
MkGroup(id, similarity, cs) ==
    Obj(With(With([constraints |-> Arr(cs)], "id", id), "similarity", similarity))
MkContradiction(id, confidence, c1, c2) ==
    Obj(With(With([constraint1 |-> c1, constraint2 |-> c2,
                   explanation |-> Str(T(<<"why">>))], "id", id), "confidence", confidence))

IdOptions == {Undef, Str(<<>>), Str(T(<<"id1">>))}
Offsets == {IntNum(k) : k \in 0..(MaxInputLen + 1)}
OffsetOptions == {Undef} \cup Offsets
\* scores -0.5, 0, 0.5, 1, 1.5
Scores == {Num(0 - 5), Num(0), Num(5), Num(10), Num(15)}
ScoreOptions == {Undef} \cup Scores

NestedWithId == MkConstraint(Str(T(<<"id2">>)), IntNum(0), IntNum(1))
NestedNoId == MkConstraint(Undef, IntNum(0), IntNum(1))

ConstraintValues ==
    {MkConstraint(id, s, e) : id \in IdOptions, s \in OffsetOptions, e \in OffsetOptions}
GroupValues ==
    {MkGroup(id, sim, cs) : id \in IdOptions, sim \in ScoreOptions,
        cs \in {<<>>, <<NestedWithId>>, <<NestedNoId>>, <<NestedWithId, NestedNoId>>}}
ContradictionValues ==
    {MkContradiction(id, conf, c1, NestedWithId) : id \in IdOptions, conf \in ScoreOptions,
        c1 \in {NestedWithId, NestedNoId}}

\* values that are not a well-shaped collection
BadCollections ==
    {Null, IntNum(5), Bool(TRUE), Str(T(<<"s">>)), EmptyObj,
     Arr(<<Null>>), Arr(<<IntNum(5)>>), Arr(<<Str(T(<<"s">>))>>), Arr(<<Arr(<<>>)>>)}

CollectionKeys == {"constraints", "redundantGroups", "contradictions"}

\* JSON values that are not an AnalysisResult
ShapeDocs ==
    {Null, IntNum(5), Bool(TRUE), Str(T(<<"s">>)), Arr(<<>>), EmptyObj}
    \cup {Obj(k :> x) : k \in CollectionKeys, x \in BadCollections}
    \cup {Obj("originalText" :> x) :
            x \in {IntNum(42), Bool(TRUE), Arr(<<>>), Str(<<>>), Str(T(<<"a">>)), Str(T(<<"z">>))}}

\* one collection present, of one element, or of two constraints
ElementDocs ==
    {Obj([constraints |-> Arr(<<c>>)]) : c \in ConstraintValues}
    \cup {Obj([constraints |-> Arr(<<MkConstraint(i, Undef, Undef), MkConstraint(j, Undef, Undef)>>)]) :
            i \in IdOptions, j \in IdOptions}
    \cup {Obj([redundantGroups |-> Arr(<<g>>)]) : g \in GroupValues}
    \cup {Obj([contradictions |-> Arr(<<k>>)]) : k \in ContradictionValues}

\* documents that match the AnalysisResult schema exactly
SchemaConstraints ==
    {MkConstraint(Str(T(<<"id1">>)), IntNum(se[1]), IntNum(se[2])) :
        se \in {<<0, 0>>, <<0, 1>>, <<1, MaxInputLen + 1>>}}
SchemaScores == {Num(0), Num(5), Num(10)}
SchemaGroups == {MkGroup(Str(T(<<"id3">>)), sim, <<NestedWithId>>) : sim \in SchemaScores}
SchemaContradictions ==
    {MkContradiction(Str(T(<<"id4">>)), conf, NestedWithId, NestedWithId) : conf \in SchemaScores}
UpToOne(S) == {<<>>} \cup {<<x>> : x \in S}
SchemaDocs ==
    {Obj([constraints |-> Arr(cs), redundantGroups |-> Arr(gs),
          contradictions |-> Arr(ks), originalText |-> Str(o)]) :
        cs \in UpToOne(SchemaConstraints), gs \in UpToOne(SchemaGroups),
        ks \in UpToOne(SchemaContradictions), o \in {<<>>, T(<<"a">>), T(<<"z">>)}}

AnswerDocs == ShapeDocs \cup ElementDocs \cup SchemaDocs

\* answers without JSON: empty, prose, bullet lists
ProseTexts ==
    {<<>>, T(<<"a">>), T(<<"a", " ", "b">>), T(<<" ", "a", "\n">>),
     T(<<"-", " ", "a">>), T(<<"*", " ", "a">>), T(<<"U+2022", " ", "a">>),
     T(<<"-", " ", "a", "\n", "-", " ", "b">>),
     T(<<"a", "\n", "-", " ", "b", "\n", "a">>),
     T(<<" ", "-", " ", "a">>), T(<<"a", "\n", " ", "*", " ", "b">>),
     T(<<"-", "a">>), T(<<"-">>), T(<<"-", "\t", "a", " ">>),
     T(<<"a", " ", "-", " ", "b">>), T(<<"*", " ", "b", "\n", "\n", "-", " ", "a">>)}

\* a document inside code fences, with and without commentary around it
Fenced(d) ==
    {FenceJson \o Newline \o <<Doc(d)>> \o Newline \o Fence,
     Fence \o Newline \o <<Doc(d)>> \o Newline \o Fence,
     T(<<"a", "\n">>) \o FenceJson \o <<Doc(d)>> \o Fence \o T(<<"\n", "b">>),
     Fence \o T(<<"j", "s", "\n">>) \o <<Doc(d)>> \o Newline \o Fence,
     FenceJson \o <<Doc(d)>>,
     Fence \o <<Doc(EmptyObj)>> \o Fence \o Newline \o FenceJson \o <<Doc(d)>> \o Fence,
     T(<<"a", " ">>) \o <<Doc(d)>>,
     Newline \o <<Doc(d)>> \o T(<<" ">>)}

FencedDocs == {Null, EmptyObj, Obj([constraints |-> Arr(<<NestedNoId>>), originalText |-> Str(T(<<"z">>))])}

\* prose and bullets inside code fences
FencedProse ==
    {T(<<"a", " ">>) \o Fence \o T(<<"-", " ", "b">>) \o Fence,
     Fence \o Newline \o T(<<"a">>) \o Newline \o Fence,
     Fence \o Newline \o T(<<"-", " ", "a">>) \o Newline \o Fence}

AnswerTexts(f) ==
    IF f = "full"
    THEN ProseTexts \cup {JSONStringify(d) : d \in AnswerDocs}
         \cup UNION {Fenced(d) : d \in FencedDocs} \cup {Fence, FenceJson}
         \cup FencedProse
    ELSE ProseTexts \cup UNION {Fenced(d) : d \in FencedDocs} \cup FencedProse

\* bodies of a success response: the envelope around an answer text, an
\* envelope whose answer is no string, and bodies without the answer path
OkBodies(f, p) ==
    {JSONStringify(Wrap(p, Str(a))) : a \in AnswerTexts(f)}
    \cup {JSONStringify(Wrap(p, IntNum(5))), JSONStringify(Wrap(p, Null)),
          JSONStringify(EmptyObj), JSONStringify(Null), T(<<"a">>)}

\* bodies of a non-success response to a call made with apiKey; a provider
\* may quote the credential it was sent in its error message
ErrorBodies(apiKey) ==
    {JSONStringify(Obj([error |-> Obj([message |-> Str(T(<<"provider said no">>))])])),
     JSONStringify(Obj([error |->
        Obj([message |-> Str(T(<<"Incorrect API key provided: ">>) \o apiKey)])])),
     JSONStringify(Obj([error |-> Str(T(<<"denied">>))])),
     JSONStringify(Obj([error |-> EmptyObj])),
     JSONStringify(Obj([error |-> Null])),
     JSONStringify(EmptyObj), JSONStringify(Null), T(<<"a">>)}

(***************************************************************************)
(* The state machine                                                       *)
(***************************************************************************)
NoEvent == [httpMethod |-> "", body |-> <<>>]
NoLocals == [providerName |-> "", inputText |-> Undef, apiKey |-> <<>>]
NoResp == [arrived |-> FALSE, ok |-> FALSE, status |-> 0, body |-> <<>>]
NoResponse == [statusCode |-> 0, headers |-> <<>>, body |-> <<>>]

\* no body function was applied yet
NoBuilt == [fn |-> "", provider |-> "", messages |-> <<>>, thrown |-> FALSE, body |-> Undef]

\* the page as it is first rendered: useState('') etc.
InitPage ==
    [inputText |-> <<>>, selectedProvider |-> "xAI (Grok)", analysisResult |-> Null,
     loading |-> FALSE, error |-> Null, pc |-> "ready", sent |-> 0]

\* the requests of the model; Spec handles the first of them, SpecConcurrent
\* handles both with their steps interleaved
Requests == {"r1", "r2"}
Sequential == {"r1"}

Init ==
    /\ env \in Environments
    /\ pc = [r \in Requests |-> "idle"]
    /\ fn = [r \in Requests |-> "full"]
    /\ event = [r \in Requests |-> NoEvent]
    /\ bodyParsed = [r \in Requests |-> FALSE]
    /\ locals = [r \in Requests |-> NoLocals]
    /\ outbound = [r \in Requests |-> <<>>]
    /\ resp = [r \in Requests |-> NoResp]
    /\ response = [r \in Requests |-> NoResponse]
    /\ built = NoBuilt
    /\ page = InitPage

\* a handler that keeps providerName, inputText and apiKey in variables of
\* the module, which every invocation shares
StoreLocals_ModuleLevel(r, l) == [q \in Requests |-> l]

\* const { providerName, inputText } = ...; const apiKey = ...: variables of
\* the invocation r
StoreLocals(r, l) == [locals EXCEPT ![r] = l]

\* the platform calls handler(event) of function f with a method of M and a
\* body of B; the handler runs to its first await or to its return
InvokeWith(r, F, M, B) ==
    /\ pc[r] = "idle"
    /\ \E f \in F, m \in M, b \in B :
        LET ev == [httpMethod |-> m, body |-> b]
            out == HandlerStart(f, ev, env)
        IN /\ fn' = [fn EXCEPT ![r] = f]
           /\ event' = [event EXCEPT ![r] = ev]
           /\ bodyParsed' = [bodyParsed EXCEPT ![r] = out.parsed]
           /\ IF out.kind = "return"
              THEN /\ response' = [response EXCEPT ![r] = out.response]
                   /\ pc' = [pc EXCEPT ![r] = "done"]
                   /\ UNCHANGED <<locals, outbound>>
              ELSE /\ locals' = StoreLocals(r, out.locals)
                   /\ outbound' = [outbound EXCEPT ![r] = Append(@, out.call)]
                   /\ pc' = [pc EXCEPT ![r] = "fetch"]
                   /\ UNCHANGED response
    /\ UNCHANGED <<env, resp, built>>

\* a handler that repeats a failed outbound call once before it gives up
FetchFails_RetriesOnce(r) ==
    /\ pc[r] = "fetch"
    /\ IF Len(outbound[r]) < 2
       THEN /\ outbound' = [outbound EXCEPT ![r] = Append(@, @[1])]
            /\ UNCHANGED <<pc, response>>
       ELSE /\ response' = [response EXCEPT ![r] = Caught(fn[r], FetchFailedMessage)]
            /\ pc' = [pc EXCEPT ![r] = "done"]
            /\ UNCHANGED outbound
    /\ UNCHANGED <<env, fn, event, bodyParsed, locals, resp, built, page>>

\* a request from any caller
Invoke(r) == InvokeWith(r, Functions, Methods, RequestBodies) /\ UNCHANGED page

\* the outbound call fails at the network level: fetch rejects and the
\* catch block returns
FetchFails(r) ==
    /\ pc[r] = "fetch"
    /\ response' = [response EXCEPT ![r] = Caught(fn[r], FetchFailedMessage)]
    /\ pc' = [pc EXCEPT ![r] = "done"]
    /\ UNCHANGED <<env, fn, event, bodyParsed, locals, outbound, resp, built, page>>

\* the provider answers with a status; the handler awaits response.json()
FetchResponds(r) ==
    /\ pc[r] = "fetch"
    /\ \E s \in Statuses :
        resp' = [resp EXCEPT ![r] = [arrived |-> TRUE, ok |-> s \in 200..299,
                                     status |-> s, body |-> <<>>]]
    /\ pc' = [pc EXCEPT ![r] = "json"]
    /\ UNCHANGED <<env, fn, event, bodyParsed, locals, outbound, response, built, page>>

\* the bodies the provider may answer r with
ProviderBodies(r) ==
    IF resp[r].ok THEN OkBodies(fn[r], locals[r].providerName)
    ELSE ErrorBodies(locals[r].apiKey)

\* the body of the provider's response, one of B, is read; the handler runs
\* to its return
BodyArrivesWith(r, B) ==
    /\ pc[r] = "json"
    /\ \E b \in B :
        LET rsp == [resp[r] EXCEPT !.body = b]
        IN /\ resp' = [resp EXCEPT ![r] = rsp]
           /\ response' = [response EXCEPT ![r] = HandlerResume(fn[r], r, locals[r], rsp)]
    /\ pc' = [pc EXCEPT ![r] = "done"]
    /\ UNCHANGED <<env, fn, event, bodyParsed, locals, outbound, built, page>>

BodyArrives(r) == BodyArrivesWith(r, ProviderBodies(r))

Next == \E r \in Sequential : Invoke(r) \/ FetchFails(r) \/ FetchResponds(r) \/ BodyArrives(r)

Spec == Init /\ [][Next]_vars

(***************************************************************************)
(* Two requests handled with their steps interleaved                       *)
(***************************************************************************)
ConcurrentMethods == {"POST", "GET"}
ConcurrentNames == {"OpenAI", "Cohere", "FooAI"}
ConcurrentRequestBodies ==
    {JSONStringify(Obj([providerName |-> Str(T(<<n>>)), inputText |-> Str(i)])) :
        n \in ConcurrentNames, i \in InputTexts}
    \cup {T(<<"a">>)}
ConcurrentEnvironments == {AllConfigured, [k \in {"OPENAI_API_KEY"} |-> AllConfigured[k]]}

\* answers: a bullet list, a document whose constraint needs an id, null
ConcurrentAnswerTexts ==
    {T(<<"-", " ", "a">>),
     JSONStringify(Obj([constraints |-> Arr(<<NestedNoId>>)])),
     JSONStringify(Null)}
ConcurrentBodies(r) ==
    ProviderBodies(r)
    \cap ({JSONStringify(Wrap(locals[r].providerName, Str(a))) : a \in ConcurrentAnswerTexts}
          \cup {JSONStringify(EmptyObj), T(<<"a">>)})

InitConcurrent == Init /\ env \in ConcurrentEnvironments

NextConcurrent ==
    \E r \in Requests :
        \/ InvokeWith(r, Functions, ConcurrentMethods, ConcurrentRequestBodies) /\ UNCHANGED page
        \/ FetchFails(r)
        \/ FetchResponds(r)
        \/ BodyArrivesWith(r, ConcurrentBodies(r))

SpecConcurrent == InitConcurrent /\ [][NextConcurrent]_vars

(***************************************************************************)
(* The body functions of the provider table, applied to any list of        *)
(* messages                                                                *)
(***************************************************************************)
\* messages: {role, content} with role system or user
Roles == {"system", "user"}
Contents == {T(<<"a">>), T(<<"b">>)}
MessageLists ==
    UNION {[1..n -> [role : Roles, content : Contents]] : n \in 0..MaxMessages}

\* provider.body(model, messages) of function f; on an empty list Cohere's
\* messages[messages.length - 1].content throws a TypeError
BuildBody(f, p, messages) ==
    /\ built = NoBuilt
    /\ built' = IF p = "Cohere" /\ messages = <<>>
                THEN [fn |-> f, provider |-> p, messages |-> messages,
                      thrown |-> TRUE, body |-> Undef]
                ELSE [fn |-> f, provider |-> p, messages |-> messages,
                      thrown |-> FALSE,
                      body |-> ProviderBody(f, p, AI_PROVIDERS[p].model, messages)]
    /\ UNCHANGED <<handlerVars, page>>

InitBody == Init /\ env = AllConfigured

NextBody == \E f \in Functions, p \in ProviderNames, messages \in MessageLists :
                BuildBody(f, p, messages)

SpecBody == InitBody /\ [][NextBody]_vars

(***************************************************************************)
(* The analysis page (app/page.tsx) in front of the full-analysis handler  *)
(***************************************************************************)
\* entries of the page's AI_PROVIDERS the user picks; the first entry,
\* xAI (Grok), is selected when the page is rendered
PageProviders == {"OpenAI", "Cohere"}

\* texts typed into the textarea: empty, blank, and with content
PageInputs == {<<>>, T(<<" ">>), T(<<"a">>)}

\* the request of the k-th submit
RequestOf(k) == IF k = 1 THEN "r1" ELSE "r2"

\* !inputText.trim()
Blank(text) == Trim(text) = <<>>

\* onChange={(e) => setInputText(e.target.value)}
SetInputText(text) ==
    /\ page.pc = "ready"
    /\ page' = [page EXCEPT !.inputText = text]
    /\ UNCHANGED <<handlerVars, built>>

\* onClick={() => { setSelectedProvider(provider) ... }}
SetSelectedProvider(p) ==
    /\ page.pc = "ready"
    /\ page' = [page EXCEPT !.selectedProvider = p]
    /\ UNCHANGED <<handlerVars, built>>

\* a submit that leaves the result of the submit before it on the page
Submitted_KeepsResult(pg) ==
    [pg EXCEPT !.loading = TRUE, !.error = Null, !.pc = "await", !.sent = @ + 1]

\* setLoading(true); setError(null); setAnalysisResult(null)
Submitted(pg) ==
    [pg EXCEPT !.loading = TRUE, !.error = Null, !.analysisResult = Null,
               !.pc = "await", !.sent = @ + 1]

\* handleSubmit up to await fetch(...): nothing happens on blank input;
\* otherwise the state is reset and the request is sent, which the platform
\* hands to the full-analysis handler
HandleSubmit ==
    /\ page.pc = "ready"
    /\ page.sent < Cardinality(Requests)
    /\ IF Blank(page.inputText)
       THEN UNCHANGED vars
       ELSE /\ page' = Submitted(page)
            /\ InvokeWith(RequestOf(page.sent + 1), {"full"}, {"POST"},
                  {JSONStringify(Obj([providerName |-> Str(T(<<page.selectedProvider>>)),
                                      inputText |-> Str(page.inputText)]))})

\* the state after the catch and finally blocks
Failed(pg, message) ==
    [pg EXCEPT !.error = Str(message), !.loading = FALSE, !.pc = "ready"]

\* `Request failed with status ${response.status}`
RequestFailedMessage(status) == T(<<"Request failed with status ", ToString(status)>>)

\* handleSubmit from the arrival of the handler's response: response.json(),
\* the throw on a non-success status, setAnalysisResult(data), catch, finally
Settled(pg, rsp) ==
    LET data == JSONParse(rsp.body)
    IN IF ~data.ok THEN Failed(pg, SyntaxErrorMessage)
       ELSE IF rsp.statusCode \notin 200..299
       THEN IF Nullish(data.v) THEN Failed(pg, TypeErrorMessage)
            ELSE Failed(pg, ToText(OrElse(Get(data.v, "error"),
                                          Str(RequestFailedMessage(rsp.statusCode)))))
       ELSE [pg EXCEPT !.analysisResult = data.v, !.loading = FALSE, !.pc = "ready"]

PageSettles ==
    /\ page.pc = "await"
    /\ pc[RequestOf(page.sent)] = "done"
    /\ page' = Settled(page, response[RequestOf(page.sent)])
    /\ UNCHANGED <<handlerVars, built>>

\* the request of the page fails at the network level (fetch rejects) or the
\* platform answers with a body that is no JSON (response.json() rejects);
\* the handler, if it still runs, runs on
PageRequestFails ==
    /\ page.pc = "await"
    /\ \E message \in {FetchFailedMessage, SyntaxErrorMessage} :
          page' = Failed(page, message)
    /\ UNCHANGED <<handlerVars, built>>

PageEnvironments == ConcurrentEnvironments

\* what the provider answers a request of the page with: a bullet list or
\* null on success, {} on a non-success status
PageBodies(r) ==
    ProviderBodies(r)
    \cap {JSONStringify(Wrap(locals[r].providerName, Str(T(<<"-", " ", "a">>)))),
          JSONStringify(Wrap(locals[r].providerName, Str(JSONStringify(Null)))),
          JSONStringify(EmptyObj)}

InitPageSpec == Init /\ env \in PageEnvironments

NextPage ==
    \/ \E text \in PageInputs : SetInputText(text)
    \/ \E p \in PageProviders : SetSelectedProvider(p)
    \/ HandleSubmit
    \/ PageSettles
    \/ PageRequestFails
    \/ \E r \in Requests :
          \/ FetchFails(r)
          \/ FetchResponds(r)
          \/ BodyArrivesWith(r, PageBodies(r))

SpecPage == InitPageSpec /\ [][NextPage]_vars

(***************************************************************************)
(* Properties                                                              *)
(***************************************************************************)
Done(r) == pc[r] = "done"

\* the decoded body of the response returned for r
ResponseBody(r) == JSONParse(response[r].body).v

\* the decoded body of the request r
RequestBody(r) == JSONParse(event[r].body)

\* the provider answered r with a success status and an envelope that holds
\* an answer string
Answered(r) ==
    /\ Done(r) /\ resp[r].arrived /\ resp[r].ok
    /\ JSONParse(resp[r].body).ok
    /\ LET a == ParseResponse(locals[r].providerName, JSONParse(resp[r].body).v)
       IN a.ok /\ a.v.t = "str"

\* the answer text of the provider, as extracted and trimmed
AnswerText(r) ==
    Trim(ParseResponse(locals[r].providerName, JSONParse(resp[r].body).v).v.v)

FullAnswered(r) == fn[r] = "full" /\ Answered(r)

\* a status-200 response of the full-analysis handler: a reconciled result
Reconciled(r) == FullAnswered(r) /\ response[r].statusCode = 200

InputTextOf(r) == locals[r].inputText

IsArr(x) == x.t = "arr"
IsStr(x) == x.t = "str"
IsObj(x) == x.t = "obj"
Has(x, k) == IsObj(x) /\ k \in DOMAIN x.v

\* C1: for every inputText and every answer text of the provider, the body
\* the full-analysis handler returns has the fields constraints,
\* redundantGroups, contradictions (sequences) and originalText (a string).
C1_FourTypedFields ==
    \A r \in Requests :
        FullAnswered(r) =>
            LET b == ResponseBody(r)
            IN /\ \A k \in CollectionKeys : Has(b, k) /\ IsArr(b.v[k])
               /\ Has(b, "originalText") /\ IsStr(b.v["originalText"])

\* C2: once the provider answered with a success status and an extractable
\* answer string, the full-analysis handler returns status 200, never 500.
C2_ReconciliationNeverFails ==
    \A r \in Requests : FullAnswered(r) => response[r].statusCode = 200

IsOffset(x) == x.t = "num" /\ x.v >= 0 /\ x.v % 10 = 0
IsScore(x) == x.t = "num" /\ 0 <= x.v /\ x.v <= 10
HasFields(x, required, optional) ==
    IsObj(x) /\ required \subseteq DOMAIN x.v /\ DOMAIN x.v \subseteq (required \cup optional)

\* a value that matches the Constraint / RedundantGroup / Contradiction /
\* AnalysisResult schema
IsSchemaConstraint(c) ==
    /\ HasFields(c, {"text", "sourceStart", "sourceEnd"}, {"id", "category"})
    /\ IsStr(c.v["text"]) /\ IsOffset(c.v["sourceStart"]) /\ IsOffset(c.v["sourceEnd"])
    /\ c.v["sourceStart"].v <= c.v["sourceEnd"].v
    /\ ("id" \in DOMAIN c.v => IsStr(c.v["id"]))
IsSchemaGroup(g) ==
    /\ HasFields(g, {"constraints", "similarity"}, {"id"})
    /\ IsArr(g.v["constraints"])
    /\ \A i \in 1..Len(g.v["constraints"].v) : IsSchemaConstraint(g.v["constraints"].v[i])
    /\ IsScore(g.v["similarity"])
    /\ ("id" \in DOMAIN g.v => IsStr(g.v["id"]))
IsSchemaContradiction(k) ==
    /\ HasFields(k, {"constraint1", "constraint2", "explanation", "confidence"}, {"id"})
    /\ IsSchemaConstraint(k.v["constraint1"]) /\ IsSchemaConstraint(k.v["constraint2"])
    /\ IsStr(k.v["explanation"]) /\ IsScore(k.v["confidence"])
    /\ ("id" \in DOMAIN k.v => IsStr(k.v["id"]))
IsSchemaDoc(d) ==
    /\ HasFields(d, CollectionKeys \cup {"originalText"}, {})
    /\ \A k \in CollectionKeys : IsArr(d.v[k])
    /\ \A i \in 1..Len(d.v["constraints"].v) : IsSchemaConstraint(d.v["constraints"].v[i])
    /\ \A i \in 1..Len(d.v["redundantGroups"].v) : IsSchemaGroup(d.v["redundantGroups"].v[i])
    /\ \A i \in 1..Len(d.v["contradictions"].v) :
          IsSchemaContradiction(d.v["contradictions"].v[i])
    /\ IsStr(d.v["originalText"])

\* x is y, or y with an id filled in where y had none (or an empty one)
SameButFilledId(x, y) ==
    \/ x = y
    \/ /\ ~Truthy(Get(y, "id"))
       /\ IsObj(x) /\ DOMAIN x.v = DOMAIN y.v \cup {"id"}
       /\ \A k \in DOMAIN y.v \ {"id"} : x.v[k] = y.v[k]

SameButFilledIds(x, y) ==
    /\ IsObj(x) /\ DOMAIN x.v = DOMAIN y.v
    /\ x.v["originalText"] = y.v["originalText"]
    /\ \A k \in CollectionKeys :
          /\ IsArr(x.v[k]) /\ Len(x.v[k].v) = Len(y.v[k].v)
          /\ \A i \in 1..Len(y.v[k].v) : SameButFilledId(x.v[k].v[i], y.v[k].v[i])

\* C3: round trip: for an answer that is a JSON document matching the
\* AnalysisResult schema exactly, the reconciled result equals the document
\* field for field, except for an id filled in where it was missing.
C3_RoundTrip ==
    \A r \in Requests :
        (FullAnswered(r) /\ JSONParse(AnswerText(r)).ok
            /\ IsSchemaDoc(JSONParse(AnswerText(r)).v)) =>
            /\ response[r].statusCode = 200
            /\ SameButFilledIds(ResponseBody(r), JSONParse(AnswerText(r)).v)

HasNonEmptyId(x) == Has(x, "id") /\ IsStr(x.v["id"]) /\ x.v["id"].v # <<>>

\* the constraints carried by value inside a group or a contradiction
CarriedConstraints(x) ==
    (IF Has(x, "constraints") /\ IsArr(x.v["constraints"])
     THEN {x.v["constraints"].v[i] : i \in 1..Len(x.v["constraints"].v)} ELSE {})
    \cup {x.v[k] : k \in {"constraint1", "constraint2"} \cap (IF IsObj(x) THEN DOMAIN x.v ELSE {})}

\* C4: in every reconciled result every element of constraints,
\* redundantGroups and contradictions, and every constraint carried inside a
\* group or a contradiction, has a non-empty id.
C4_EveryIdNonEmpty ==
    \A r \in Requests :
        Reconciled(r) =>
            LET b == ResponseBody(r)
            IN /\ \A k \in CollectionKeys : \A i \in 1..Len(b.v[k].v) :
                     HasNonEmptyId(b.v[k].v[i])
               /\ \A k \in {"redundantGroups", "contradictions"} :
                     \A i \in 1..Len(b.v[k].v) :
                        \A c \in CarriedConstraints(b.v[k].v[i]) : HasNonEmptyId(c)

\* C5: in every reconciled result every group's similarity and every
\* contradiction's confidence lies in [0,1].
C5_ScoresInUnitInterval ==
    \A r \in Requests :
        Reconciled(r) =>
            LET b == ResponseBody(r)
            IN /\ \A i \in 1..Len(b.v["redundantGroups"].v) :
                     IsScore(Get(b.v["redundantGroups"].v[i], "similarity"))
               /\ \A i \in 1..Len(b.v["contradictions"].v) :
                     IsScore(Get(b.v["contradictions"].v[i], "confidence"))

\* C6: in every status-200 full-analysis response originalText equals the
\* inputText of the request.
C6_OriginalTextIsInput ==
    \A r \in Requests :
        Reconciled(r) => ResponseBody(r).v["originalText"] = InputTextOf(r)

\* the request is a POST whose body decodes to a value with properties
Decoded(r) ==
    /\ Done(r) /\ event[r].httpMethod = "POST"
    /\ RequestBody(r).ok /\ ~Nullish(RequestBody(r).v)

RequestedName(r) == Get(RequestBody(r).v, "providerName")

Registered(name) == IsStr(name) /\ \E p \in ProviderNames : name.v = T(<<p>>)

\* C7: every POST request whose providerName is not a registered provider
\* name is answered 400 {error: "Invalid provider"}.
C7_UnknownProviderIs400 ==
    \A r \in Requests :
        (Decoded(r) /\ ~Registered(RequestedName(r))) =>
            /\ response[r].statusCode = 400
            /\ ResponseBody(r) = Obj([error |-> Str(T(<<"Invalid provider">>))])

\* the credential of the provider named in r is absent or the empty string
CredentialMissing(r) ==
    \E p \in ProviderNames :
        /\ RequestedName(r).v = T(<<p>>)
        /\ (AI_PROVIDERS[p].envKey \notin DOMAIN env \/ env[AI_PROVIDERS[p].envKey] = <<>>)

\* C8: a POST request that names a registered provider whose credential is
\* absent or empty is answered 500 {error: "<providerName> API key not
\* configured"} with the name from the request.
C8_MissingCredentialIs500 ==
    \A r \in Requests :
        (Decoded(r) /\ Registered(RequestedName(r)) /\ CredentialMissing(r)) =>
            /\ response[r].statusCode = 500
            /\ ResponseBody(r) =
                  Obj([error |-> Str(RequestedName(r).v \o T(<<" API key not configured">>))])

\* a request for Cohere handled while COHERE_API_KEY is the empty string
C8_Witness ==
    \E r \in Requests :
        /\ Decoded(r) /\ RequestedName(r) = Str(T(<<"Cohere">>))
        /\ "COHERE_API_KEY" \in DOMAIN env /\ env["COHERE_API_KEY"] = <<>>
        /\ response[r].statusCode = 500

\* C9: a request whose method is not POST is answered 405 with a JSON body
\* that has an error field, and its body is never parsed.
C9_NonPostIs405 ==
    \A r \in Requests :
        (pc[r] # "idle" /\ event[r].httpMethod # "POST") =>
            /\ Done(r)
            /\ response[r].statusCode = 405
            /\ JSONParse(response[r].body).ok
            /\ Has(ResponseBody(r), "error")
            /\ ~bodyParsed[r]

\* a GET request with an undecodable body, answered
C9_Witness ==
    \E r \in Requests :
        /\ Done(r) /\ event[r].httpMethod = "GET" /\ ~RequestBody(r).ok
        /\ response[r].statusCode = 405

CorsHeaders ==
    [h \in {"Access-Control-Allow-Origin", "Access-Control-Allow-Headers",
            "Access-Control-Allow-Methods"} |->
        CASE h = "Access-Control-Allow-Origin" -> "*"
          [] h = "Access-Control-Allow-Headers" -> "Content-Type"
          [] OTHER -> "POST, OPTIONS"]

\* C10: every response the handler returns carries the three cross-origin
\* headers Access-Control-Allow-Origin: *, Access-Control-Allow-Headers:
\* Content-Type and Access-Control-Allow-Methods: POST, OPTIONS.
C10_EveryResponseHasCors ==
    \A r \in Requests :
        Done(r) =>
            \A h \in DOMAIN CorsHeaders :
                h \in DOMAIN response[r].headers /\ response[r].headers[h] = CorsHeaders[h]

\* the request r failed after its validation: its body could not be decoded,
\* the outbound call failed at the network level, the provider answered with
\* a non-success status, or its success response holds no answer string
UndecodableRequest(r) == Done(r) /\ event[r].httpMethod = "POST" /\ ~RequestBody(r).ok
NetworkFailure(r) == Done(r) /\ outbound[r] # <<>> /\ ~resp[r].arrived
ProviderRefused(r) == Done(r) /\ resp[r].arrived /\ ~resp[r].ok
NoAnswerInEnvelope(r) == Done(r) /\ resp[r].arrived /\ resp[r].ok /\ ~Answered(r)
FailedAfterValidation(r) ==
    UndecodableRequest(r) \/ NetworkFailure(r) \/ ProviderRefused(r) \/ NoAnswerInEnvelope(r)

\* C11: in full-analysis mode every failure after request validation (an
\* undecodable request body, a network failure, a non-success provider
\* status, a success response without the answer path) is answered 500 with
\* a body that has a non-empty error message, three empty sequences and an
\* empty originalText.
C11_FailureIs500WithDefaults ==
    \A r \in Requests :
        (fn[r] = "full" /\ FailedAfterValidation(r)) =>
            /\ response[r].statusCode = 500
            /\ JSONParse(response[r].body).ok
            /\ LET b == ResponseBody(r)
               IN /\ HasFields(b, CollectionKeys \cup {"error", "originalText"}, {})
                  /\ IsStr(b.v["error"]) /\ b.v["error"].v # <<>>
                  /\ \A k \in CollectionKeys : b.v[k] = Arr(<<>>)
                  /\ b.v["originalText"] = Str(<<>>)

\* a success response whose body is {} was answered 500 by the full-analysis
\* handler
C11_Witness ==
    \E r \in Requests :
        /\ fn[r] = "full" /\ NoAnswerInEnvelope(r)
        /\ resp[r].body = JSONStringify(EmptyObj)
        /\ response[r].statusCode = 500

\* the error message a decoded error body carries, if it has one
OwnErrorMessage(d) ==
    IF Has(d, "error") /\ Has(d.v["error"], "message") THEN d.v["error"].v["message"] ELSE Undef

EndsWith(s, suffix) ==
    Len(s) >= Len(suffix) /\ SubSeq(s, Len(s) - Len(suffix) + 1, Len(s)) = suffix

\* C12: when the provider answers with a non-success status and a decodable
\* error body, the handler returns 500 whose error is the provider's own
\* error message if the body has one, and otherwise a message that ends in
\* "request failed with status <code>"; also for the body null and for a
\* body without an error field.
C12_ProviderErrorSurfaced ==
    \A r \in Requests :
        (ProviderRefused(r) /\ JSONParse(resp[r].body).ok) =>
            /\ response[r].statusCode = 500
            /\ Has(ResponseBody(r), "error")
            /\ LET own == OwnErrorMessage(JSONParse(resp[r].body).v)
                   error == ResponseBody(r).v["error"]
               IN IF Truthy(own) THEN error = own
                  ELSE /\ IsStr(error)
                       /\ EndsWith(error.v, T(<<"request failed with status ",
                                                 ToString(resp[r].status)>>))

\* the endpoint of the provider the request r names
EndpointOf(r) == T(<<AI_PROVIDERS[locals[r].providerName].endpoint>>)

\* C13: for every request, at every point of its execution, at most one
\* outbound call was made, and it went to the endpoint of the provider the
\* request names; a call that failed (at the network level or with a
\* non-success status) was not repeated and the request was answered 500.
C13_AtMostOneOutboundCall ==
    \A r \in Requests :
        /\ Len(outbound[r]) <= 1
        /\ \A i \in 1..Len(outbound[r]) : SubSeq(outbound[r][i].url, 1, 1) = EndpointOf(r)
        /\ (NetworkFailure(r) \/ ProviderRefused(r)) =>
              /\ Len(outbound[r]) = 1
              /\ response[r].statusCode = 500

\* a request whose only outbound call failed at the network level, answered
C13_Witness ==
    \E r \in Requests :
        /\ NetworkFailure(r) /\ Len(outbound[r]) = 1
        /\ response[r].statusCode = 500

\* the text the full-analysis handler hands to JSON.parse for the answer of r
ParserInput(r) == StripCodeFence(AnswerText(r))

\* C14: when the trimmed answer text holds no triple-backtick marker, the
\* text handed to the JSON parser is that answer text, unchanged.
C14_UnfencedTextUnchanged ==
    \A r \in Requests :
        (FullAnswered(r) /\ ~Includes(AnswerText(r), Fence)) =>
            ParserInput(r) = AnswerText(r)

\* an unfenced two-line answer, handled by the full-analysis handler
C14_Witness ==
    \E r \in Requests :
        /\ FullAnswered(r) /\ ~Includes(AnswerText(r), Fence)
        /\ Includes(AnswerText(r), Newline)
        /\ ParserInput(r) = AnswerText(r)
        /\ response[r].statusCode = 200

\* the answer text of the provider as extracted, before the handler trims it
RawAnswer(r) == ParseResponse(locals[r].providerName, JSONParse(resp[r].body).v).v.v

\* a line that begins, after leading whitespace, with a bullet marker that
\* is followed by whitespace; and the line without marker and surrounding
\* whitespace
IsBulletSpaceLine(line) ==
    LET t == TrimStart(line) IN Len(t) >= 2 /\ IsBullet(t[1]) /\ IsSpace(t[2])
WithoutMarker(line) == Trim(Tail(TrimStart(line)))

\* C15: in simple-extraction mode a success answer is returned as status 200
\* with the body {constraints: [...]} that has one {text} entry per answer
\* line that begins, after leading whitespace, with -, * or \u2022 followed
\* by whitespace, in line order, the text being the line without the marker
\* and without surrounding whitespace.
C15_SimpleBulletLines ==
    \A r \in Requests :
        (fn[r] = "simple" /\ Answered(r)) =>
            LET lines == SelectSeq(Split(RawAnswer(r), Newline), IsBulletSpaceLine)
            IN /\ response[r].statusCode = 200
               /\ ResponseBody(r) =
                     Obj([constraints |->
                            Arr([i \in 1..Len(lines) |->
                                   Obj([text |-> Str(WithoutMarker(lines[i]))])])])

\* no line of the text has a bullet marker for its first non-blank character
NoBulletLine(text) ==
    \A i \in 1..Len(Split(text, Newline)) : ~StartsWithBullet(Split(text, Newline)[i])

\* the response 200 with three empty collections and the request's inputText
EmptyAnalysis(r) ==
    /\ response[r].statusCode = 200
    /\ ResponseBody(r) = Obj([constraints |-> Arr(<<>>),
                              redundantGroups |-> Arr(<<>>),
                              contradictions |-> Arr(<<>>),
                              originalText |-> InputTextOf(r)])

\* C16 as stated: in full-analysis mode, when the model's answer is not
\* parsable as JSON and has no line whose first non-blank character is a
\* bullet marker, the response is 200 with empty constraints, redundantGroups
\* and contradictions and originalText equal to the request's inputText.
C16_ProseAnswerIsEmptyAnalysis ==
    \A r \in Requests :
        (FullAnswered(r) /\ ~JSONParse(AnswerText(r)).ok /\ NoBulletLine(AnswerText(r))) =>
            EmptyAnalysis(r)

\* C16 amended: in full-analysis mode, when the answer left after code-fence
\* stripping is not parsable as JSON and has no line whose first non-blank
\* character is a bullet marker, the response is 200 with empty constraints,
\* redundantGroups and contradictions and originalText equal to the
\* request's inputText.
C16_StrippedProseIsEmptyAnalysis ==
    \A r \in Requests :
        (FullAnswered(r) /\ ~JSONParse(ParserInput(r)).ok /\ NoBulletLine(ParserInput(r))) =>
            EmptyAnalysis(r)

\* a fenced prose answer to a request with a non-empty inputText, answered
\* with the empty analysis
C16_Witness ==
    \E r \in Requests :
        /\ FullAnswered(r) /\ ~JSONParse(ParserInput(r)).ok /\ NoBulletLine(ParserInput(r))
        /\ ParserInput(r) = T(<<"a">>) /\ Includes(AnswerText(r), Fence)
        /\ InputTextOf(r) = Str(Rep("a", MaxInputLen))
        /\ EmptyAnalysis(r)

\* the span of the i-th constraint of the answer of r is absent: the answer
\* was no JSON (every constraint comes from the fallback), or its i-th
\* constraint has neither sourceStart nor sourceEnd
SpanAbsent(r, i) ==
    LET parsed == JSONParse(ParserInput(r))
    IN parsed.ok =>
          LET src == parsed.v.v["constraints"].v[i]
          IN ~Has(src, "sourceStart") /\ ~Has(src, "sourceEnd")

\* C17: every constraint of a reconciled result has sourceStart <= sourceEnd,
\* and a constraint whose span was absent gets the span from 0 to the length
\* of the input text; for every combination of present and absent offsets
\* in the model's answer.
C17_SpanOrdered ==
    \A r \in Requests :
        Reconciled(r) =>
            LET cs == ResponseBody(r).v["constraints"].v
            IN \A i \in 1..Len(cs) :
                  /\ Has(cs[i], "sourceStart") /\ Has(cs[i], "sourceEnd")
                  /\ cs[i].v["sourceStart"].t = "num" /\ cs[i].v["sourceEnd"].t = "num"
                  /\ cs[i].v["sourceStart"].v <= cs[i].v["sourceEnd"].v
                  /\ SpanAbsent(r, i) =>
                        /\ cs[i].v["sourceStart"] = IntNum(0)
                        /\ cs[i].v["sourceEnd"] = IntNum(Len(InputTextOf(r).v))

\* the content of the first fenced block of a text: what stands between the
\* first triple-backtick marker, with the language tag (the letters directly
\* after the marker) left out, and the next marker
Letters ==
    {"a", "b", "c", "d", "e", "f", "g", "h", "i", "j", "k", "l", "m",
     "n", "o", "p", "q", "r", "s", "t", "u", "v", "w", "x", "y", "z"}
RECURSIVE DropTag(_)
DropTag(s) == IF s # <<>> /\ Head(s).c \in Letters THEN DropTag(Tail(s)) ELSE s
FirstBlock(text) ==
    LET open == IndexOf(text, Fence)
        rest == DropTag(SubSeq(text, open + Len(Fence), Len(text)))
        close == IndexOf(rest, Fence)
    IN SubSeq(rest, 1, close - 1)

\* the text has an opening and a closing triple-backtick marker
HasFencedBlock(text) == Len(Split(text, Fence)) >= 3

\* C18: for an answer with a fenced block, the text handed to the JSON parser
\* is the content between the first opening triple-backtick marker, with
\* its language tag whatever the tag, and the next closing marker: the tag
\* is no part of it, text outside the block is dropped, and no later block
\* is taken in place of an earlier one.
C18_FirstFencedBlock ==
    \A r \in Requests :
        (FullAnswered(r) /\ HasFencedBlock(AnswerText(r))) =>
            ParserInput(r) = Trim(FirstBlock(AnswerText(r)))

\* the answer of r took the fallback path: the text handed to JSON.parse was
\* no JSON document
FellBack(r) == FullAnswered(r) /\ ~JSONParse(ParserInput(r)).ok

\* C19: on the fallback path the constraints returned are the answer lines
\* that begin with a bullet marker, one per line and in line order, each
\* with the marker stripped from its text, a non-empty id and the span from
\* 0 to the length of inputText; also for indented bullet lines and for
\* lines whose marker is not followed by a space.
C19_FallbackBulletLines ==
    \A r \in Requests :
        FellBack(r) =>
            LET lines == SelectSeq(Split(ParserInput(r), Newline), StartsWithBullet)
                cs == ResponseBody(r).v["constraints"].v
            IN /\ response[r].statusCode = 200
               /\ Len(cs) = Len(lines)
               /\ \A i \in 1..Len(cs) :
                     /\ cs[i].v["text"] = Str(WithoutMarker(lines[i]))
                     /\ IsStr(cs[i].v["id"]) /\ cs[i].v["id"].v # <<>>
                     /\ cs[i].v["sourceStart"] = IntNum(0)
                     /\ cs[i].v["sourceEnd"] = IntNum(Len(InputTextOf(r).v))

\* the credentials configured in the process environment
Credentials == {env[k] : k \in DOMAIN env} \ {<<>>}

\* the credential configured for the provider the request r names
CredentialOf(r) == env[AI_PROVIDERS[locals[r].providerName].envKey]

\* the value x holds the text key in one of its strings
RECURSIVE Mentions(_, _)
Mentions(x, key) ==
    CASE x.t = "str" -> Includes(x.v, key)
      [] x.t = "arr" -> \E i \in 1..Len(x.v) : Mentions(x.v[i], key)
      [] x.t = "obj" -> \E k \in DOMAIN x.v : Mentions(x.v[k], key)
      [] OTHER -> FALSE

InHeaders(call, key) == \E h \in DOMAIN call.headers : Includes(call.headers[h], key)
InRequestBody(call, key) == Mentions(JSONParse(call.body).v, key)

\* the body the provider answered r with holds the text key
ProviderSent(r, key) ==
    resp[r].arrived /\ JSONParse(resp[r].body).ok /\ Mentions(JSONParse(resp[r].body).v, key)

\* the outbound call of r goes to the endpoint of the named provider with
\* the credential configured for that provider and no other: in the url if
\* and only if the provider is Google (Gemini), whose headers hold no
\* credential; for the other providers in a header and not in the url
CredentialSentAsRegistered(r) ==
    \A i \in 1..Len(outbound[r]) :
        LET call == outbound[r][i]
            key == CredentialOf(r)
            gemini == locals[r].providerName = "Google (Gemini)"
        IN /\ i = 1
           /\ key # <<>> /\ locals[r].apiKey = key
           /\ SubSeq(call.url, 1, 1) = EndpointOf(r)
           /\ Includes(call.url, key) <=> gemini
           /\ InHeaders(call, key) <=> ~gemini
           /\ ~InRequestBody(call, key)
           /\ \A other \in Credentials \ {key} :
                 ~Includes(call.url, other) /\ ~InHeaders(call, other)
                 /\ ~InRequestBody(call, other)

Built(p) == built.provider = p /\ ~built.thrown

\* positions of the messages with a role
WithRole(messages, role) == {i \in 1..Len(messages) : messages[i].role = role}

\* C21: for every list of system/user messages the Anthropic body has a
\* messages list without a system entry that keeps the other messages in
\* their order, and its system field holds the content of every system
\* message (also when there are several) and is the empty string when there
\* is none.
C21_AnthropicSystemSeparated ==
    Built("Anthropic (Claude)") =>
        LET messages == built.messages
            users == SelectSeq(messages, LAMBDA m : m.role # "system")
            sent == built.body.v["messages"].v
            system == built.body.v["system"]
        IN /\ sent = [i \in 1..Len(users) |-> MessageValue(users[i])]
           /\ IsStr(system)
           /\ \A i \in WithRole(messages, "system") : Includes(system.v, messages[i].content)
           /\ WithRole(messages, "system") = {} => system.v = <<>>

\* C22: for every non-empty list of system/user messages with a user message
\* the Cohere body sends as message the content of the last user message
\* (also when a system message stands last), as preamble the content of the
\* system message (the empty string when there is none), and nothing else
\* of the list.
C22_CohereLastUserMessage ==
    (Built("Cohere") /\ WithRole(built.messages, "user") # {}) =>
        LET messages == built.messages
            users == SelectSeq(messages, LAMBDA m : m.role = "user")
            systems == WithRole(messages, "system")
        IN /\ DOMAIN built.body.v = {"model", "message", "preamble"}
           /\ built.body.v["message"] = Str(users[Len(users)].content)
           /\ IF systems = {} THEN built.body.v["preamble"] = Str(<<>>)
              ELSE \E i \in systems : built.body.v["preamble"] = Str(messages[i].content)

\* the response the handler returns for r when r is handled alone: what
\* the handler computes from the event of r, the process environment and
\* the provider's answer to the call of r
Alone(r) ==
    LET out == HandlerStart(fn[r], event[r], env)
    IN IF out.kind = "return" THEN out.response
       ELSE IF ~resp[r].arrived THEN Caught(fn[r], FetchFailedMessage)
       ELSE HandlerResume(fn[r], r, out.locals, resp[r])

\* a step leaves the state of every request but one as it is
OnlyOneRequestSteps ==
    \E r \in Requests :
        \A q \in Requests \ {r} :
            /\ pc'[q] = pc[q] /\ fn'[q] = fn[q] /\ event'[q] = event[q]
            /\ bodyParsed'[q] = bodyParsed[q] /\ locals'[q] = locals[q]
            /\ outbound'[q] = outbound[q] /\ resp'[q] = resp[q]
            /\ response'[q] = response[q]

KeyNotConfiguredAnswer(r) ==
    /\ response[r].statusCode = 500
    /\ EndsWith(ResponseBody(r).v["error"].v, T(<<" API key not configured">>))

\* r was refused before any outbound call: 405, 400, the 500 of a missing
\* credential, or a POST whose body is no JSON
Refused(r) ==
    /\ Done(r)
    /\ \/ response[r].statusCode \in {405, 400}
       \/ KeyNotConfiguredAnswer(r)
       \/ event[r].httpMethod = "POST" /\ ~RequestBody(r).ok

\* the outbound call of r was issued after the method check, the parse of
\* the body, the provider lookup and the credential lookup had succeeded
CallAfterValidation(r) ==
    outbound[r] # <<>> =>
        /\ event[r].httpMethod = "POST"
        /\ bodyParsed[r] /\ RequestBody(r).ok
        /\ Registered(RequestedName(r))
        /\ ~CredentialMissing(r)

\* C24: the outbound call is issued only after method check, body parse,
\* provider lookup and credential lookup succeeded, in that order: a
\* request answered 405, 400 or 500 "API key not configured", or one whose
\* body is no JSON, causes no outbound call; a request refused for its
\* method had its body not parsed; and a request that names an unknown
\* provider while no credential is configured is answered 400, not 500.
C24_ValidationBeforeCall ==
    \A r \in Requests :
        /\ CallAfterValidation(r)
        /\ Refused(r) => outbound[r] = <<>>
        /\ (Done(r) /\ response[r].statusCode = 405) => ~bodyParsed[r]
        /\ (Decoded(r) /\ ~Registered(RequestedName(r)) /\ Credentials = {}) =>
              response[r].statusCode = 400

\* the page sent a request and that request settled
PageSettled == page.sent > 0 /\ page.pc = "ready"

\* the handler answered the last request of the page with a success status
\* and the page read that answer
LastAnswer == response[RequestOf(page.sent)]
LastSucceeded ==
    /\ Done(RequestOf(page.sent))
    /\ LastAnswer.statusCode \in 200..299
    /\ page.analysisResult = JSONParse(LastAnswer.body).v

\* a step taken while the input is blank sends nothing and changes nothing
\* of loading, error and analysisResult
BlankSubmitIsNoOp ==
    Blank(page.inputText) =>
        /\ page'.sent = page.sent /\ page'.loading = page.loading
        /\ page'.error = page.error /\ page'.analysisResult = page.analysisResult
        /\ \A r \in Requests : pc[r] = "idle" => pc'[r] = "idle"
        /\ outbound' = outbound

====
